---- MODULE Spec2Model ----
(***************************************************************************)
(* Model of ReviewCommentService (src/src/review-comment.ts): the          *)
(* add / update / delete reconciliation of review comments against the     *)
(* backing CSV file, the CSV row builder and the remote URL builder.       *)
(*                                                                         *)
(* Text is modelled character by character: a string is a sequence of      *)
(* one-character strings, so that String.prototype.includes, split, join   *)
(* and replace are computed as JavaScript computes them.                   *)
(***************************************************************************)
EXTENDS Integers, Sequences, FiniteSets, TLC

VARIABLES
    file,       \* the backing review file: [exists, content]
    prev,       \* the backing file as it was when the last operation started
    call,       \* the last operation and its arguments
    out,        \* what the last operation did: errors shown, reads, writes, ...
    env,        \* ambient state read by the service: configuration and git head
    urlCall     \* the last direct evaluation of remoteUrl: arguments and result

vars == <<file, prev, call, out, env, urlCall>>

(***************************************************************************)
(* Characters and bounds                                                   *)
(***************************************************************************)
EOL == "\n"
DQ == "\""
BS == "\\"
SLASH == "/"

\* addComment and updateComment are explored only while the file they leave
\* holds at most this many non-empty lines.
MaxRows == 3
\* Largest line number handed to remoteUrl directly.
MaxLine == 2

(***************************************************************************)
(* String primitives of the JavaScript runtime                             *)
(***************************************************************************)
\* sub occurs in s at position i
MatchAt(s, sub, i) == SubSeq(s, i, i + Len(sub) - 1) = sub

\* s.indexOf(sub) + 1; 0 when sub does not occur
IndexOf(s, sub) ==
    IF sub = <<>> THEN 1
    ELSE LET hits == { i \in 1..(Len(s) - Len(sub) + 1) : s[i] = sub[1] /\ MatchAt(s, sub, i) }
         IN IF hits = {} THEN 0 ELSE CHOOSE i \in hits : \A j \in hits : i <= j

\* s.includes(sub)
Includes(s, sub) ==
    \/ sub = <<>>
    \/ \E i \in 1..(Len(s) - Len(sub) + 1) : s[i] = sub[1] /\ MatchAt(s, sub, i)

\* s.replace(pat, rep) with a string pattern: only the first occurrence
ReplaceFirst(s, pat, rep) ==
    LET i == IndexOf(s, pat)
    IN IF i = 0 THEN s
       ELSE SubSeq(s, 1, i - 1) \o rep \o SubSeq(s, i + Len(pat), Len(s))

\* s.replace(/c/g, rep) for a one-character pattern c
RECURSIVE ReplaceChar(_, _, _)
ReplaceChar(s, c, rep) ==
    IF s = <<>> THEN <<>>
    ELSE (IF Head(s) = c THEN rep ELSE <<Head(s)>>) \o ReplaceChar(Tail(s), c, rep)

\* s.split(EOL): the pieces between the line terminators, from position from on
RECURSIVE SplitFrom(_, _, _)
SplitFrom(s, from, eols) ==
    LET rest == { i \in eols : i >= from }
        i == CHOOSE i \in rest : \A j \in rest : i <= j
    IN IF rest = {} THEN <<SubSeq(s, from, Len(s))>>
       ELSE <<SubSeq(s, from, i - 1)>> \o SplitFrom(s, i + 1, eols)

SplitEOL(s) == SplitFrom(s, 1, { i \in 1..Len(s) : s[i] = EOL })

\* rows.join(sep)
RECURSIVE Join(_, _)
Join(rows, sep) ==
    IF rows = <<>> THEN <<>>
    ELSE IF Len(rows) = 1 THEN rows[1]
    ELSE rows[1] \o sep \o Join(Tail(rows), sep)

\* rows.findIndex(p) + 1, given the positions whose row satisfies p;
\* 0 when no row does
FindIndex(hits) ==
    IF hits = {} THEN 0 ELSE CHOOSE i \in hits : \A j \in hits : i <= j

\* rows.splice(i, 1)
Splice(rows, i) == SubSeq(rows, 1, i - 1) \o SubSeq(rows, i + 1, Len(rows))

\* n.toString() for the small numbers of the model
Digits == <<"1", "2", "3", "4", "5", "6", "7", "8", "9">>
NumToString(n) == IF n = 0 THEN <<"0">> ELSE <<Digits[n]>>
\* Number(c) for one character; 0 stands for every falsy result (NaN, undefined)
ToNumber(c) ==
    LET hits == { n \in 1..Len(Digits) : Digits[n] = c }
    IN IF hits = {} THEN 0 ELSE CHOOSE n \in hits : TRUE

(***************************************************************************)
(* Helpers imported from ./utils and ./model                               *)
(***************************************************************************)
\* escapeDoubleQuotesForCsv: every double quote is doubled
escapeDoubleQuotesForCsv(s) == ReplaceChar(s, DQ, <<DQ, DQ>>)

\* escapeEndOfLineForCsv: every line terminator becomes the two characters \n
escapeEndOfLineForCsv(s) == ReplaceChar(s, EOL, <<BS, "n">>)

\* removeTrailingSlash
removeTrailingSlash(s) ==
    IF s # <<>> /\ s[Len(s)] = SLASH THEN SubSeq(s, 1, Len(s) - 1) ELSE s

\* removeLeadingAndTrailingSlash
removeLeadingAndTrailingSlash(s) ==
    LET t == IF s # <<>> /\ s[1] = SLASH THEN Tail(s) ELSE s
    IN removeTrailingSlash(t)

\* getSelectionStringDefinition: "12" for one line, "12-20" for a range.
\* An empty selection (a bare cursor) still has a start and an end position.
getSelectionStringDefinition(editor) ==
    IF editor.start = editor.end THEN NumToString(editor.start)
    ELSE NumToString(editor.start) \o <<"-">> \o NumToString(editor.end)

\* startLineNumberFromStringDefinition; 0 stands for a falsy result
startLineNumberFromStringDefinition(def) ==
    IF def = <<>> THEN 0 ELSE ToNumber(def[1])

\* endLineNumberFromStringDefinition; 0 stands for undefined
endLineNumberFromStringDefinition(def) ==
    IF Len(def) >= 3 /\ def[2] = "-" THEN ToNumber(def[3]) ELSE 0

\* hasSelection: an editor is given and something is actually selected
hasSelection(editor) == editor.kind = "range"

\* cleanCsvStorage: drop the empty rows
cleanCsvStorage(rows) == SelectSeq(rows, LAMBDA r : r # <<>>)

\* getCsvFileLinesAsArray: the non-empty lines of the file
getCsvFileLinesAsArray(content) == cleanCsvStorage(SplitEOL(content))

\* CsvStructure.formatAsCsvLine: the fields in their fixed order, each quoted
Quoted(v) == <<DQ>> \o v \o <<DQ>>
formatAsCsvLine(c) ==
    Join(<<Quoted(c.sha), Quoted(c.filename), Quoted(c.url), Quoted(c.lines),
           Quoted(c.title), Quoted(c.comment), Quoted(c.priority),
           Quoted(c.category), Quoted(c.additional), Quoted(c.id)>>, <<",">>)

(***************************************************************************)
(* ReviewCommentService: the pure parts                                    *)
(***************************************************************************)
\* remoteUrl(sha, filePath, start, end); start/end 0 = absent (falsy)
remoteUrl(sha, filePath, start, end, customUrl, baseUrl) ==
    LET filePathWithoutLeadingAndTrailingSlash == removeLeadingAndTrailingSlash(filePath)
    IN IF baseUrl = <<>> /\ customUrl = <<>> THEN <<>>
       ELSE IF customUrl # <<>> THEN
            ReplaceFirst(
              ReplaceFirst(
                ReplaceFirst(
                  ReplaceFirst(customUrl, <<"{", "s", "h", "a", "}">>, sha),
                  <<"{", "f", "i", "l", "e", "}">>, filePathWithoutLeadingAndTrailingSlash),
                <<"{", "s", "t", "a", "r", "t", "}">>,
                IF start # 0 THEN NumToString(start) ELSE <<"0">>),
              <<"{", "e", "n", "d", "}">>,
              IF end # 0 THEN NumToString(end) ELSE <<"0">>)
       ELSE LET baseUrlWithoutTrailingSlash == removeTrailingSlash(baseUrl)
                shaPart == IF sha # <<>> THEN sha \o <<SLASH>> ELSE <<>>
                ankerPart == IF start # 0 /\ end # 0
                             THEN <<"#", "L">> \o NumToString(start)
                                  \o <<"-", "L">> \o NumToString(end)
                             ELSE <<>>
            IN baseUrlWithoutTrailingSlash \o <<SLASH>> \o shaPart
               \o filePathWithoutLeadingAndTrailingSlash \o ankerPart

\* buildCsvString(comment); e is the ambient configuration and git head
buildCsvString(comment, e) ==
    LET c1 == [comment EXCEPT
                 !.comment = escapeEndOfLineForCsv(escapeDoubleQuotesForCsv(comment.comment)),
                 !.title = IF comment.title # <<>>
                           THEN escapeDoubleQuotesForCsv(comment.title) ELSE <<>>,
                 !.priority = IF comment.priority # <<>> THEN comment.priority ELSE <<"0">>,
                 !.additional = IF comment.additional # <<>>
                                THEN escapeDoubleQuotesForCsv(comment.additional) ELSE <<>>,
                 !.sha = e.sha]
        startAnker == startLineNumberFromStringDefinition(c1.lines)
        endAnker == endLineNumberFromStringDefinition(c1.lines)
        c2 == [c1 EXCEPT !.url = remoteUrl(c1.sha, c1.filename, startAnker, endAnker,
                                           e.customUrl, e.baseUrl)]
    IN formatAsCsvLine(c2)

\* persistComments: the content written (overwrite) or appended
persistContent(rows) == Join(cleanCsvStorage(rows), <<EOL>>) \o <<EOL>>

\* getSelectedLines: [ok, lines, error]
getSelectedLines(comment, editor, ignoreIfNone) ==
    IF ignoreIfNone /\ ~hasSelection(editor)
    THEN [ok |-> TRUE, lines |-> comment.lines, error |-> FALSE]
    ELSE IF editor.kind \in {"null", "nosel"}
    THEN [ok |-> FALSE, lines |-> comment.lines, error |-> TRUE]
    ELSE [ok |-> TRUE, lines |-> getSelectionStringDefinition(editor), error |-> FALSE]

\* checkFileExists: the error it shows; its return does not end the caller
checkFileExists(f) == IF ~f.exists THEN {"FileMissing"} ELSE {}

\* persistComments(rows, overwrite): the backing file afterwards.
\* writeFileSync and appendFileSync both create a file that does not exist.
persistComments(f, rows, overwrite) ==
    [exists |-> TRUE,
     content |-> IF overwrite \/ ~f.exists THEN persistContent(rows)
                 ELSE f.content \o persistContent(rows)]

(***************************************************************************)
(* Inputs                                                                  *)
(***************************************************************************)
workspaceRoot == <<"/", "w">>
FileX == <<"/", "x">>
FileY == <<"/", "y">>

\* The column names, as the first line of a freshly created review file.
HeaderRow ==
    <<"s", "h", "a", ",", "f", "i", "l", "e", "n", "a", "m", "e", ",", "u", "r", "l", ",",
      "l", "i", "n", "e", "s", ",", "t", "i", "t", "l", "e", ",",
      "c", "o", "m", "m", "e", "n", "t", ",", "p", "r", "i", "o", "r", "i", "t", "y", ",",
      "c", "a", "t", "e", "g", "o", "r", "y", ",",
      "a", "d", "d", "i", "t", "i", "o", "n", "a", "l", ",", "i", "d">>

NoEditor == [kind |-> "null", fileName |-> <<>>, start |-> 0, end |-> 0]
Editors ==
    { NoEditor,
      \* an editor whose selection is undefined
      [kind |-> "nosel", fileName |-> workspaceRoot \o FileX, start |-> 0, end |-> 0],
      \* an empty selection: a bare cursor on line 1
      [kind |-> "empty", fileName |-> workspaceRoot \o FileX, start |-> 1, end |-> 1],
      \* lines 1 to 2 selected
      [kind |-> "range", fileName |-> workspaceRoot \o FileX, start |-> 1, end |-> 2] }

\* updateComment only asks whether something is selected
UpdateEditors == { e \in Editors : e.kind \in {"null", "range"} }

\* title, comment text and additional notes: plain, or with quotes and line breaks
Plain == [title |-> <<"t">>, comment |-> <<"c">>, additional |-> <<>>]
Hostile == [title |-> <<EOL, EOL>>, comment |-> <<DQ, EOL>>, additional |-> <<DQ>>]

Entry(id, filename, lines, t) ==
    [id |-> id, sha |-> <<>>, filename |-> filename, url |-> <<>>, lines |-> lines,
     title |-> t.title, comment |-> t.comment, priority |-> <<>>, category |-> <<>>,
     additional |-> t.additional]

NoComment == Entry(<<>>, <<>>, <<>>, [title |-> <<>>, comment |-> <<>>, additional |-> <<>>])
NoEntry == [label |-> <<>>, text |-> <<>>]

\* records handed to addComment: filename and lines are set by the operation
NewComments ==
    { Entry(<<>>, <<>>, <<>>, Plain), Entry(<<"7">>, <<>>, <<>>, Plain),
      Entry(<<>>, <<>>, <<>>, Hostile) }

\* records handed to updateComment: as read back from the file by the caller
OldComments ==
    { Entry(<<>>, FileX, <<"1">>, Plain),
      Entry(<<"7">>, FileX, <<"1">>, Plain),
      Entry(<<>>, FileX, <<"1", "-", "2">>, Hostile),
      Entry(<<"8">>, FileY, <<"1">>, Plain) }

\* list entries handed to deleteComment
ListEntries ==
    { [label |-> <<>>, text |-> <<>>],
      [label |-> <<"7">>, text |-> <<"c">>],
      [label |-> <<"t">>, text |-> <<"c">>],
      [label |-> <<>>, text |-> <<DQ, EOL>>] }

\* configuration and git head
Envs == { [sha |-> <<"a">>, customUrl |-> <<>>, baseUrl |-> <<"b", "/">>] }

NoFile == [exists |-> FALSE, content |-> <<>>]
NoCall == [op |-> "none", comment |-> NoComment, editor |-> NoEditor, entry |-> NoEntry]
NoOut == [errors |-> {}, reads |-> 0, writes |-> 0, threw |-> FALSE, hit |-> 0, row |-> <<>>]
NoUrlCall == [sha |-> <<>>, filePath |-> <<>>, start |-> 0, end |-> 0,
              customUrl |-> <<>>, baseUrl |-> <<>>, result |-> <<>>]

\* the non-empty lines of the backing file
RowCount(f) == IF f.exists THEN Len(getCsvFileLinesAsArray(f.content)) ELSE 0

\* findUpdateRow with the fallback keyed on the refreshed lines value
findUpdateRowRefreshedKey(rows, comment, fallBackKey) ==
    LET byId == FindIndex({ i \in 1..Len(rows) : Includes(rows[i], comment.id) })
    IN IF byId > 0 THEN byId
       ELSE FindIndex({ i \in 1..Len(rows) : /\ Includes(rows[i], comment.filename)
                                             /\ Includes(rows[i], comment.lines) })

\* the row updateComment replaces: by identifier, else by filename and the
\* previous lines value; 0 when neither finds a row
findUpdateRow(rows, comment, fallBackKey) ==
    LET byId == FindIndex({ i \in 1..Len(rows) : Includes(rows[i], comment.id) })
    IN IF byId > 0 THEN byId
       ELSE FindIndex({ i \in 1..Len(rows) : /\ Includes(rows[i], comment.filename)
                                             /\ Includes(rows[i], fallBackKey) })

(***************************************************************************)
(* The store                                                               *)
(***************************************************************************)
Init ==
    /\ file \in { NoFile, [exists |-> TRUE, content |-> persistContent(<<HeaderRow>>)] }
    /\ prev = file
    /\ call = NoCall
    /\ out = NoOut
    /\ env \in Envs
    /\ urlCall = NoUrlCall

addComment(comment, editor) ==
    LET errs == checkFileExists(file)
        sel == getSelectedLines(comment, editor, FALSE)
        c == [comment EXCEPT !.lines = sel.lines,
                             !.filename = ReplaceFirst(editor.fileName, workspaceRoot, <<>>)]
        row == buildCsvString(c, env)
    IN /\ prev' = file
       /\ call' = [NoCall EXCEPT !.op = "add", !.comment = comment, !.editor = editor]
       /\ IF ~sel.ok
          THEN /\ file' = file
               /\ out' = [NoOut EXCEPT !.errors = errs \cup {"NoSelection"}]
          ELSE /\ file' = persistComments(file, <<row>>, FALSE)
               /\ out' = [NoOut EXCEPT !.errors = errs, !.writes = 1, !.row = row]
       /\ UNCHANGED <<env, urlCall>>

updateComment(comment, editor) ==
    LET errs == checkFileExists(file)
        fallBackKey == comment.lines
        sel == getSelectedLines(comment, editor, TRUE)
        c == [comment EXCEPT !.lines = sel.lines]
        rows == getCsvFileLinesAsArray(file.content)
        updateRowIndex == findUpdateRow(rows, c, fallBackKey)
        row == buildCsvString(c, env)
    IN /\ prev' = file
       /\ call' = [NoCall EXCEPT !.op = "update", !.comment = comment, !.editor = editor]
       /\ IF ~sel.ok
          THEN /\ file' = file
               /\ out' = [NoOut EXCEPT !.errors = errs \cup {"NoSelection"}]
          ELSE IF ~file.exists
          THEN \* readFileSync throws on the missing file
               /\ file' = file
               /\ out' = [NoOut EXCEPT !.errors = errs, !.threw = TRUE]
          ELSE IF updateRowIndex = 0
          THEN /\ file' = file
               /\ out' = [NoOut EXCEPT !.errors = errs \cup {"UpdateFailed"}, !.reads = 1]
          ELSE /\ file' = persistComments(file, [rows EXCEPT ![updateRowIndex] = row], TRUE)
               /\ out' = [NoOut EXCEPT !.errors = errs, !.reads = 1, !.writes = 1,
                                       !.hit = updateRowIndex, !.row = row]
       /\ UNCHANGED <<env, urlCall>>

deleteComment(entry) ==
    LET errs == checkFileExists(file)
        rows == SplitEOL(file.content)
        textEscaped == escapeEndOfLineForCsv(escapeDoubleQuotesForCsv(entry.text))
        updateRowIndex == FindIndex({ i \in 1..Len(rows) : /\ Includes(rows[i], entry.label)
                                                           /\ Includes(rows[i], textEscaped) })
    IN /\ prev' = file
       /\ call' = [NoCall EXCEPT !.op = "delete", !.entry = entry]
       /\ IF ~file.exists
          THEN \* readFileSync throws on the missing file
               /\ file' = file
               /\ out' = [NoOut EXCEPT !.errors = errs, !.threw = TRUE]
          ELSE IF updateRowIndex > 0
          THEN /\ file' = persistComments(file, Splice(rows, updateRowIndex), TRUE)
               /\ out' = [NoOut EXCEPT !.errors = errs, !.reads = 1, !.writes = 1,
                                       !.hit = updateRowIndex]
          ELSE /\ file' = file
               /\ out' = [NoOut EXCEPT !.errors = errs \cup {"DeleteFailed"}, !.reads = 1]
       /\ UNCHANGED <<env, urlCall>>

\* the model stops growing the file beyond MaxRows lines
AddComment ==
    \E comment \in NewComments, editor \in Editors :
        addComment(comment, editor) /\ RowCount(file') <= MaxRows
UpdateComment ==
    \E comment \in OldComments, editor \in UpdateEditors :
        updateComment(comment, editor) /\ RowCount(file') <= MaxRows
DeleteComment == \E entry \in ListEntries : deleteComment(entry)

Next == AddComment \/ UpdateComment \/ DeleteComment

Spec == Init /\ [][Next]_vars

(***************************************************************************)
(* The remote URL builder on its own                                       *)
(***************************************************************************)
Shas == { <<>>, <<"a">> }
FilePaths == { <<"x">>, <<"/", "x">>, <<"/", "x", "/">> }
CustomUrls ==
    { <<>>,
      \* {file}@{sha}:{start}
      <<"{", "f", "i", "l", "e", "}", "@", "{", "s", "h", "a", "}", ":",
        "{", "s", "t", "a", "r", "t", "}">>,
      \* u/{sha}/{file}#{start}-{end}
      <<"u", "/", "{", "s", "h", "a", "}", "/", "{", "f", "i", "l", "e", "}", "#",
        "{", "s", "t", "a", "r", "t", "}", "-", "{", "e", "n", "d", "}">>,
      \* {file}#{start}-{start}
      <<"{", "f", "i", "l", "e", "}", "#", "{", "s", "t", "a", "r", "t", "}", "-",
        "{", "s", "t", "a", "r", "t", "}">> }
BaseUrls == { <<>>, <<"b">>, <<"b", "/">> }

InitUrl ==
    /\ file = NoFile
    /\ prev = NoFile
    /\ call = NoCall
    /\ out = NoOut
    /\ env \in Envs
    /\ urlCall = NoUrlCall

RemoteUrlCall ==
    \E sha \in Shas, filePath \in FilePaths, start \in 0..MaxLine, end \in 0..MaxLine,
       customUrl \in CustomUrls, baseUrl \in BaseUrls :
        /\ urlCall' = [sha |-> sha, filePath |-> filePath, start |-> start, end |-> end,
                       customUrl |-> customUrl, baseUrl |-> baseUrl,
                       result |-> remoteUrl(sha, filePath, start, end, customUrl, baseUrl)]
        /\ UNCHANGED <<file, prev, call, out, env>>

NextUrl == RemoteUrlCall

SpecUrl == InitUrl /\ [][NextUrl]_vars

(***************************************************************************)
(* Vocabulary of the properties                                            *)
(***************************************************************************)
\* the non-empty rows of a backing file
Rows(f) == IF f.exists THEN cleanCsvStorage(SplitEOL(f.content)) ELSE <<>>

EndsWithEOL(content) == content # <<>> /\ content[Len(content)] = EOL

\* the retained non-empty rows joined by EOL plus one trailing EOL
WellFormed(content) ==
    content = Join(cleanCsvStorage(SplitEOL(content)), <<EOL>>) \o <<EOL>>

Min(S) == CHOOSE i \in S : \A j \in S : i <= j

\* s.replaceAll(pat, rep): every occurrence, left to right
RECURSIVE ReplaceAll(_, _, _)
ReplaceAll(s, pat, rep) ==
    LET i == IndexOf(s, pat)
    IN IF i = 0 THEN s
       ELSE SubSeq(s, 1, i - 1) \o rep \o ReplaceAll(SubSeq(s, i + Len(pat), Len(s)), pat, rep)

\* the precedence rule of the remote URL, written out from its description
StripSlashes(path) ==
    LET a == IF path # <<>> /\ Head(path) = SLASH THEN Tail(path) ELSE path
    IN IF a # <<>> /\ a[Len(a)] = SLASH THEN SubSeq(a, 1, Len(a) - 1) ELSE a

ReferenceUrl(u) ==
    LET path == StripSlashes(u.filePath)
        num(n) == IF n = 0 THEN <<"0">> ELSE NumToString(n)
    IN IF u.customUrl = <<>> /\ u.baseUrl = <<>> THEN <<>>
       ELSE IF u.customUrl # <<>> THEN
            ReplaceAll(ReplaceAll(ReplaceAll(ReplaceAll(u.customUrl,
                <<"{", "s", "h", "a", "}">>, u.sha),
                <<"{", "f", "i", "l", "e", "}">>, path),
                <<"{", "s", "t", "a", "r", "t", "}">>, num(u.start)),
                <<"{", "e", "n", "d", "}">>, num(u.end))
       ELSE (IF u.baseUrl[Len(u.baseUrl)] = SLASH
             THEN SubSeq(u.baseUrl, 1, Len(u.baseUrl) - 1) ELSE u.baseUrl)
            \o <<SLASH>>
            \o (IF u.sha # <<>> THEN u.sha \o <<SLASH>> ELSE <<>>)
            \o path
            \o (IF u.start # 0 /\ u.end # 0
                THEN <<"#", "L">> \o NumToString(u.start) \o <<"-", "L">> \o NumToString(u.end)
                ELSE <<>>)

(***************************************************************************)
(* Properties                                                              *)
(***************************************************************************)

\* C1: when the backing file does not exist, an operation reports the error
\* and aborts: nothing is read, nothing is written or appended, and the file
\* is still absent afterwards.  (Adds with an empty selection are left to C8.)
C1_MissingFileAborts ==
    (call.op \in {"add", "update", "delete"} /\ ~prev.exists
     /\ call.editor.kind # "empty") =>
        /\ "FileMissing" \in out.errors
        /\ out.reads = 0
        /\ out.writes = 0
        /\ ~file.exists

\* C2: on an existing, EOL-terminated file an add with a selected range only
\* appends: the content is the previous content, the new row and one EOL, so
\* there is exactly one more row and the earlier rows are where they were.
C2_AddAppendsOneRow ==
    (call.op = "add" /\ prev.exists /\ EndsWithEOL(prev.content)
     /\ call.editor.kind = "range") =>
        /\ file.content = prev.content \o out.row \o <<EOL>>
        /\ Rows(file) = Rows(prev) \o <<out.row>>

\* C3: a successful update keeps the number of rows and replaces exactly one
\* row by the new serialization; every other row is identical and in place.
C3_UpdateReplacesOneRow ==
    (call.op = "update" /\ out.writes = 1) =>
        LET before == Rows(prev)
            after == Rows(file)
        IN /\ Len(after) = Len(before)
           /\ \E k \in 1..Len(before) :
                /\ after[k] = out.row
                /\ \A j \in 1..Len(before) : j # k => after[j] = before[j]

\* C4: delete changes the file exactly when some row contains the label and
\* the escaped text; then the first such row, and only it, is removed;
\* otherwise the content is unchanged and an error is reported.
C4_DeleteRemovesFirstMatch ==
    (call.op = "delete" /\ prev.exists) =>
        LET rows == Rows(prev)
            esc == escapeEndOfLineForCsv(escapeDoubleQuotesForCsv(call.entry.text))
            hits == { i \in 1..Len(rows) :
                        Includes(rows[i], call.entry.label) /\ Includes(rows[i], esc) }
        IN IF hits # {}
           THEN /\ file.content # prev.content
                /\ Rows(file) = Splice(rows, Min(hits))
           ELSE /\ file = prev
                /\ "DeleteFailed" \in out.errors

\* C5: update looks for the first row containing the identifier; only when no
\* row contains it, for the first row containing the filename and the lines
\* value the record had before the refresh; when neither finds a row an error
\* is reported and the file is not written.
C5_UpdateLookupOrder ==
    (call.op = "update" /\ prev.exists) =>
        LET rows == Rows(prev)
            byId == { i \in 1..Len(rows) : Includes(rows[i], call.comment.id) }
            byKey == { i \in 1..Len(rows) :
                         /\ Includes(rows[i], call.comment.filename)
                         /\ Includes(rows[i], call.comment.lines) }
            found == IF byId # {} THEN byId ELSE byKey
        IN IF found = {}
           THEN /\ "UpdateFailed" \in out.errors
                /\ out.writes = 0
                /\ file = prev
           ELSE /\ out.hit = Min(found)
                /\ out.writes = 1
                /\ "UpdateFailed" \notin out.errors

\* C5 witness: no row held the identifier, the fallback found a row that is
\* not the first one, and the selection had replaced the record's lines value.
C5_FallbackUsed ==
    /\ call.op = "update"
    /\ prev.exists
    /\ \A i \in 1..Len(Rows(prev)) : ~Includes(Rows(prev)[i], call.comment.id)
    /\ out.hit > 1
    /\ call.editor.kind = "range"
    /\ getSelectionStringDefinition(call.editor) # call.comment.lines

\* C6: the row built for a record holds no line terminator, whatever its
\* comment text, title and additional notes contain.
C6_RowIsOneLine ==
    (/\ prev.exists
     /\ out.writes = 1
     /\ \/ call.op = "update"
        \/ call.op = "add" /\ call.editor.kind = "range") =>
        ~Includes(out.row, <<EOL>>)

\* C7: an operation that starts on a well-formed file leaves a well-formed
\* file: the non-empty rows joined by EOL plus one trailing EOL.  (Rows that
\* themselves hold a line terminator are left to C6.)
C7_FileStaysWellFormed ==
    (prev.exists /\ WellFormed(prev.content) /\ ~Includes(out.row, <<EOL>>)) =>
        WellFormed(file.content)

\* C8: without an editor, or with an absent or empty selection, add reports
\* an error, appends nothing and leaves the file unchanged.
C8_AddNeedsSelection ==
    (call.op = "add" /\ prev.exists /\ call.editor.kind \in {"null", "nosel", "empty"}) =>
        /\ "NoSelection" \in out.errors
        /\ out.writes = 0
        /\ file = prev

\* C9: remoteUrl equals the precedence rule: nothing without configuration,
\* else the custom template with its placeholders substituted, else the base
\* URL, the sha segment, the path and the anchor.
C9_RemoteUrlFollowsRule == urlCall.result = ReferenceUrl(urlCall)

\* C10: for a record without identifier the row replaced contains the
\* record's filename and its previous lines value.
C10_EmptyIdUsesFallback ==
    (call.op = "update" /\ call.comment.id = <<>> /\ out.writes = 1) =>
        LET row == Rows(prev)[out.hit]
        IN /\ Includes(row, call.comment.filename)
           /\ Includes(row, call.comment.lines)

====
